---- MODULE Spec2Model ----
(***************************************************************************)
(* Model of the restore path of vpchron.py (class VpcRestore, cmd_restore). *)
(* One restore invocation is a sequential process; every provisioning-API  *)
(* call is one step whose outcome (success or a raised exception) is       *)
(* chosen by the environment.  Every call is appended to the log `calls`.  *)
(***************************************************************************)
EXTENDS Integers, Sequences, FiniteSets, TLC

(* ------------------------------ bounds --------------------------------- *)
\* number of provisioning calls that may fail in one run
MaxFailures == 2
\* number of networks in one snapshot
MaxNets == 2

(* ---------------------------- identifiers ------------------------------ *)
\* An identifier "kind-n"; gen tells captured ones from ones minted in this run.
Id(kind, gen, k) == [kind |-> kind, gen |-> gen, n |-> k]
Orig(kind, k) == Id(kind, "orig", k)
NoId == Id("none", "none", 0)
LocalTarget == Id("local", "orig", 0)
Absent == "absent"

Range(s) == {s[x] : x \in DOMAIN s}
EmptyMap == [x \in {} |-> NoId]
Put(m, k, v) == [x \in (DOMAIN m) \cup {k} |-> IF x = k THEN v ELSE m[x]]

RECURSIVE SelectSeqBy(_, _)
\* list comprehension [t for t in s if keep[t]]; keep is a function on Range(s)
SelectSeqBy(s, keep) ==
    IF s = <<>> THEN <<>>
    ELSE (IF keep[Head(s)] THEN <<Head(s)>> ELSE <<>>) \o SelectSeqBy(Tail(s), keep)

(* ------------------------------- tags ---------------------------------- *)
\* A tag key is the sequence of its ':'-separated parts.
KeyName == <<"Name">>
KeyEnv == <<"Env">>
KeyStackName == <<"aws", "cloudformation", "stack-name">>
KeyStackId == <<"aws", "cloudformation", "stack-id">>
Tag(k, v) == [Key |-> k, Value |-> v]

\* tag['Key'].startswith('aws:')
StartsWithAws(key) == Len(key) >= 2 /\ key[1] = "aws"

\* restore_vpc: tag['Key'] != 'aws:cloudformation:stack-name'
VpcTagKept(tag) == tag.Key # KeyStackName

\* the other stages: not tag['Key'].startswith('aws:')
TagKept(tag) == ~StartsWithAws(tag.Key)

VpcTagSpecs(tags) == SelectSeqBy(tags, [t \in Range(tags) |-> VpcTagKept(t)])
TagSpecs(tags) == SelectSeqBy(tags, [t \in Range(tags) |-> TagKept(t)])

(* --------------------------- security rules ---------------------------- *)
IpRange(cidr, desc) == [CidrIp |-> cidr, Description |-> desc]
Rule(proto, from, to, ranges, ranges6, pairs) ==
    [IpProtocol |-> proto, FromPort |-> from, ToPort |-> to,
     IpRanges |-> ranges, Ipv6Ranges |-> ranges6, UserIdGroupPairs |-> pairs]
NoRule == Rule("none", -1, -1, <<>>, <<>>, <<>>)

\* _clean_sg_rule: ranges without a CIDR field are dropped
CleanRanges(ranges) ==
    SelectSeqBy(ranges, [r \in Range(ranges) |-> r.CidrIp # Absent])

\* _clean_sg_rule: None for a rule without protocol; otherwise protocol, ports
\* and the cleaned v4/v6 ranges are copied - UserIdGroupPairs is not copied.
CleanSgRule(rule) ==
    IF rule.IpProtocol = Absent THEN NoRule
    ELSE Rule(rule.IpProtocol, rule.FromPort, rule.ToPort,
              CleanRanges(rule.IpRanges), CleanRanges(rule.Ipv6Ranges), <<>>)

(* ------------------------------ routes --------------------------------- *)
\* a captured route: one of the target keys is set
Route(dest, gw) ==
    [DestinationCidrBlock |-> dest, GatewayId |-> gw,
     NatGatewayId |-> NoId, VpcPeeringConnectionId |-> NoId]
NatRoute(dest, nat) == [Route(dest, NoId) EXCEPT !.NatGatewayId = nat]
PeeringRoute(dest, pcx) == [Route(dest, NoId) EXCEPT !.VpcPeeringConnectionId = pcx]
Assoc(main, subnet) == [Main |-> main, SubnetId |-> subnet]

\* variant: the test is 'gw-' in route.get('GatewayId')
KindsContainingGwDash == {"igw", "eigw", "vgw"}

\* 'igw-' in route.get('GatewayId'): the kinds whose textual id contains "igw-"
KindsContainingIgwDash == {"igw", "eigw"}

\* variant: neither the local route nor the kind of the target is checked
RouteIssuesCallAnyTarget(route, igw_id) ==
    /\ route.DestinationCidrBlock # Absent
    /\ route.GatewayId # NoId
    /\ igw_id # NoId

\* restore_route_tables: does this captured route lead to a create_route call
RouteIssuesCall(route, igw_id) ==
    /\ route.GatewayId # LocalTarget
    /\ route.DestinationCidrBlock # Absent
    /\ route.GatewayId # NoId
    /\ route.GatewayId.kind \in KindsContainingIgwDash
    /\ igw_id # NoId

(* ------------------------- captured networks --------------------------- *)
Subnet(id, cidr, az, tags, pub) ==
    [SubnetId |-> id, CidrBlock |-> cidr, AvailabilityZone |-> az,
     Tags |-> tags, MapPublicIpOnLaunch |-> pub]
RouteTable(id, tags, routes, assocs) ==
    [RouteTableId |-> id, Tags |-> tags, Routes |-> routes, Associations |-> assocs]
SecurityGroup(id, name, tags, ingress, hasEgress, egress) ==
    [GroupId |-> id, GroupName |-> name, Tags |-> tags, IpPermissions |-> ingress,
     HasEgress |-> hasEgress, IpPermissionsEgress |-> egress]
Igw(id, tags) == [InternetGatewayId |-> id, Tags |-> tags]
\* a datetime of a describe response
DateTime(t) == [type |-> "datetime", repr |-> t]
NetworkAcl(id) == [NetworkAclId |-> id, IsDefault |-> FALSE]
NatGateway(id, subnet, created) ==
    [NatGatewayId |-> id, SubnetId |-> subnet, CreateTime |-> DateTime(created)]
Endpoint(id) == [VpcEndpointId |-> id]
Peering(id) == [VpcPeeringConnectionId |-> id]
\* the collections of get_vpc_details; the last four are empty unless set
Network(id, cidr, tags, dnsSupport, dnsHostnames, igws, subnets, rts, sgs) ==
    [vpc_id |-> id, CidrBlock |-> cidr, Tags |-> tags,
     EnableDnsSupport |-> dnsSupport, EnableDnsHostnames |-> dnsHostnames,
     internet_gateways |-> igws, subnets |-> subnets,
     route_tables |-> rts, security_groups |-> sgs,
     network_acls |-> <<>>, nat_gateways |-> <<>>,
     vpc_endpoints |-> <<>>, vpc_peering_connections |-> <<>>]

AllOut == Rule("-1", -1, -1, <<IpRange("0.0.0.0/0", Absent)>>, <<>>, <<>>)

\* a network with a gateway, a subnet without CIDR, a table with a local, a
\* gateway, a NAT, a peering and a virtual-gateway route, a table with just a
\* local and a gateway route, a default group, a group whose rule references
\* a later group and rules with malformed ranges
Net1Replayed ==
    Network(Orig("vpc", 1), "10.0.0.0/16",
        <<Tag(KeyEnv, "prod"), Tag(KeyStackName, "s"), Tag(KeyStackId, "i"), Tag(KeyName, "one")>>,
        Absent, "true",
        <<Igw(Orig("igw", 1), <<Tag(KeyName, "gw"), Tag(KeyStackId, "i")>>)>>,
        <<Subnet(Orig("subnet", 1), "10.0.1.0/24", "az-a", <<Tag(KeyName, "pub")>>, TRUE),
          Subnet(Orig("subnet", 2), Absent, Absent, <<>>, FALSE)>>,
        <<RouteTable(Orig("rtb", 1), <<Tag(KeyName, "rt")>>,
            <<Route("10.0.0.0/16", LocalTarget),
              Route("0.0.0.0/0", Orig("igw", 1)),
              NatRoute("10.9.0.0/16", Orig("nat", 1)),
              Route(Absent, Orig("igw", 1)),
              PeeringRoute("10.8.0.0/16", Orig("pcx", 1)),
              Route("10.7.0.0/16", Orig("vgw", 1))>>,
            <<Assoc(TRUE, NoId), Assoc(FALSE, Orig("subnet", 1)),
              Assoc(FALSE, Orig("subnet", 2))>>),
          RouteTable(Orig("rtb", 4), <<>>,
            <<Route("10.0.0.0/16", LocalTarget), Route("0.0.0.0/0", Orig("igw", 1))>>,
            <<>>)>>,
        <<SecurityGroup(Orig("sg", 0), "default", <<>>, <<AllOut>>, TRUE, <<AllOut>>),
          SecurityGroup(Orig("sg", 1), "web", <<Tag(KeyName, "web")>>,
            <<Rule("tcp", 443, 443, <<>>, <<>>, <<Orig("sg", 2)>>)>>,
            TRUE, <<AllOut>>),
          SecurityGroup(Orig("sg", 2), "db", <<>>,
            <<Rule("tcp", 5432, 5432,
                   <<IpRange("10.0.1.0/24", "app"), IpRange(Absent, Absent)>>, <<>>, <<>>),
              Rule(Absent, -1, -1, <<IpRange("10.0.0.0/8", Absent)>>, <<>>, <<>>),
              Rule("udp", 53, 53, <<IpRange(Absent, "dns")>>, <<>>, <<>>)>>,
            FALSE, <<>>)>>)

\* the same network with its network ACL, NAT gateway, endpoint and peering
Net1 ==
    [Net1Replayed EXCEPT
        !.network_acls = <<NetworkAcl(Orig("acl", 1))>>,
        !.nat_gateways = <<NatGateway(Orig("nat", 1), Orig("subnet", 1), 20240101)>>,
        !.vpc_endpoints = <<Endpoint(Orig("vpce", 1))>>,
        !.vpc_peering_connections = <<Peering(Orig("pcx", 1))>>]

\* a network captured without a CIDR block
Net2 ==
    Network(Orig("vpc", 2), Absent, <<Tag(KeyName, "two")>>, "true", "true",
        <<Igw(Orig("igw", 2), <<>>)>>,
        <<Subnet(Orig("subnet", 4), "10.2.1.0/24", Absent, <<>>, FALSE)>>,
        <<RouteTable(Orig("rtb", 2), <<>>, <<Route("0.0.0.0/0", Orig("igw", 2))>>, <<>>)>>,
        <<SecurityGroup(Orig("sg", 4), "app", <<>>, <<AllOut>>, FALSE, <<>>)>>)

\* a network without gateway whose table names a subnet of another network
Net3 ==
    Network(Orig("vpc", 3), "10.3.0.0/16", <<Tag(KeyStackId, "i")>>, "false", Absent,
        <<>>,
        <<Subnet(Orig("subnet", 3), "10.3.1.0/24", Absent, <<>>, FALSE)>>,
        <<RouteTable(Orig("rtb", 3), <<>>,
            <<Route("0.0.0.0/0", Orig("igw", 9))>>,
            <<Assoc(FALSE, Orig("subnet", 3)), Assoc(FALSE, Orig("subnet", 1))>>)>>,
        <<SecurityGroup(Orig("sg", 3), "self", <<>>,
            <<Rule("tcp", 22, 22, <<>>, <<>>, <<Orig("sg", 3)>>)>>,
            TRUE, <<>>)>>)

NetPool == {Net1, Net2, Net3}

RECURSIVE SeqsUpTo(_, _)
\* the sequences of distinct members of S of length at most k
SeqsUpTo(S, k) ==
    IF k = 0 THEN {<<>>}
    ELSE LET shorter == SeqsUpTo(S, k - 1)
         IN shorter \cup {Append(s, x) : s \in shorter, x \in S} 

\* backup_data['vpcs'] in insertion order: networks with distinct identifiers
Snapshots ==
    {s \in SeqsUpTo(NetPool, MaxNets) :
        \A a, b \in DOMAIN s : a # b => s[a].vpc_id # s[b].vpc_id}

\* the --vpc-id argument: none, a captured network, an unknown network
Targets == {NoId, Orig("vpc", 1), Orig("vpc", 7)}

(* --------------------------- snapshot store ---------------------------- *)
\* A timestamp '%Y-%m-%d-...' is the sequence of its zero-padded fields, so
\* that the order of the strings is the order of the sequences.
NoTs == <<>>
Ts1 == <<2024, 1, 1>>
Ts2 == <<2024, 6, 1>>
Ts3 == <<2023, 12, 31>>
Ts9 == <<2025, 1, 1>>
\* datetime.now() of the backup invocation
NowTs == <<2024, 3, 1>>

RECURSIVE LexLess(_, _)
\* a < b for strings, field by field
LexLess(a, b) ==
    IF b = <<>> THEN FALSE
    ELSE IF a = <<>> THEN TRUE
    ELSE IF Head(a) # Head(b) THEN Head(a) < Head(b)
    ELSE LexLess(Tail(a), Tail(b))

Account == "111122223333"
\* session.region_name when no --region is given
CurrentRegion == "eu-west-1"
RegionArgs == {Absent, "us-east-1"}
PrefixArgs == {Absent, "custom"}

\* an object key is the sequence of its '/'-separated parts
Key(pfx, account, regionDir, ts, file) == <<pfx, account, regionDir, ts, file>>
\* json.dumps(data, default=str) read back by json.loads: a datetime has
\* become the string str() gives for it
Stringified(d) == [type |-> "str", repr |-> d.repr]
JsonNetwork(v) ==
    [v EXCEPT !.nat_gateways =
        [k \in DOMAIN @ |-> [@[k] EXCEPT !.CreateTime = Stringified(@)]]]
JsonDumped(vpcs) == [k \in DOMAIN vpcs |-> JsonNetwork(vpcs[k])]

RECURSIVE InsertByVpcId(_, _)
InsertByVpcId(sorted, v) ==
    IF sorted = <<>> THEN <<v>>
    ELSE IF v.vpc_id.n < Head(sorted).vpc_id.n THEN <<v>> \o sorted
    ELSE <<Head(sorted)>> \o InsertByVpcId(Tail(sorted), v)

RECURSIVE YamlDumped(_)
\* yaml.dump(data) read back by yaml.safe_load: the keys of the mapping
\* 'vpcs' come back in sorted order, a datetime stays a datetime
YamlDumped(vpcs) ==
    IF vpcs = <<>> THEN <<>>
    ELSE InsertByVpcId(YamlDumped(SubSeq(vpcs, 1, Len(vpcs) - 1)), vpcs[Len(vpcs)])

\* the content of an object as its parser returns it
Body(format, ts, vpcs) ==
    [format |-> format, timestamp |-> ts,
     vpcs |-> IF format = "json" THEN JsonDumped(vpcs) ELSE YamlDumped(vpcs)]
Object(key, body) == [key |-> key, body |-> body]
FileOf == [json |-> "vpc_config.json", yaml |-> "vpc_config.yaml"]

\* VpcBackup.__init__: self.prefix = prefix or 'vpc-backups'
BackupPrefix(pfx) == IF pfx = Absent THEN "vpc-backups" ELSE pfx

\* _save_to_s3: {self.prefix}/{account}/{self.region or 'default'}/{timestamp}/
BackupDir(pfx, reg) ==
    <<BackupPrefix(pfx), Account, IF reg = Absent THEN "default" ELSE reg>>

\* VpcRestore: vpc-backups/{account}/{self.region or self.current_region}/
RestoreDir(reg) ==
    <<"vpc-backups", Account, IF reg = Absent THEN CurrentRegion ELSE reg>>

\* the snapshots found in the store before the run: which, and in which formats
MaxStored == 2
StoredList == <<[ts |-> Ts2, formats |-> {"json", "yaml"}],
                [ts |-> Ts1, formats |-> {"yaml"}],
                [ts |-> Ts3, formats |-> {"json"}]>>
StoredObjects(dir, e) ==
    {Object(Key(dir[1], dir[2], dir[3], e.ts, FileOf[f]), Body(f, e.ts, <<Net3>>)) :
        f \in e.formats}
\* a later snapshot of the same account in another region
ForeignObject ==
    Object(Key("vpc-backups", Account, "ap-south-1", Ts9, FileOf["json"]),
           Body("json", Ts9, <<Net3>>))
InitialStores(reg) ==
    {UNION {StoredObjects(RestoreDir(reg), StoredList[k]) : k \in K} \cup {ForeignObject} :
        K \in SUBSET (1..MaxStored)}

\* list_objects_v2(Prefix=dir + '/', Delimiter='/'): the common prefixes
\* dir/part/ of the keys under dir that go on after part
CommonPrefixSet(objects, dir) ==
    {SubSeq(o.key, 1, Len(dir) + 1) :
        o \in {x \in objects : /\ Len(x.key) > Len(dir) + 1
                                /\ SubSeq(x.key, 1, Len(dir)) = dir}}

\* p.split('/')[-2] of a common prefix dir/timestamp/
PrefixTimestamp(p) == p[Len(p)]

RECURSIVE AscendingSeq(_)
\* the members of a set of common prefixes of one directory in string order
AscendingSeq(S) ==
    IF S = {} THEN <<>>
    ELSE LET least == CHOOSE p \in S :
                        \A q \in S \ {p} : LexLess(PrefixTimestamp(p), PrefixTimestamp(q))
         IN <<least>> \o AscendingSeq(S \ {least})

\* the CommonPrefixes of a response: S3 lists in ascending key order
CommonPrefixes(objects, dir) == AscendingSeq(CommonPrefixSet(objects, dir))

RECURSIVE InsertByTimestamp(_, _)
InsertByTimestamp(sorted, e) ==
    IF sorted = <<>> THEN <<e>>
    ELSE IF LexLess(e.timestamp, Head(sorted).timestamp) THEN <<e>> \o sorted
    ELSE <<Head(sorted)>> \o InsertByTimestamp(Tail(sorted), e)

RECURSIVE SortedByTimestamp(_)
\* sorted(entries, key=lambda x: x['timestamp'])
SortedByTimestamp(entries) ==
    IF entries = <<>> THEN <<>>
    ELSE InsertByTimestamp(SortedByTimestamp(SubSeq(entries, 1, Len(entries) - 1)),
                           entries[Len(entries)])

Reverse(seq) == [k \in 1..Len(seq) |-> seq[Len(seq) + 1 - k]]

\* variant: reverse=True is missing
NewestFirstUnreversed(entries) == SortedByTimestamp(entries)

\* sorted(backups, key=lambda x: x['timestamp'], reverse=True)
NewestFirst(entries) == Reverse(SortedByTimestamp(entries))

\* list_backups: one entry per common prefix
BackupEntries(prefixes) ==
    [k \in 1..Len(prefixes) |-> [timestamp |-> PrefixTimestamp(prefixes[k]),
                                 prefix |-> prefixes[k]]]

\* variant: the first of the sorted prefixes is taken
LatestPrefixFirst(prefixes) ==
    LET sorted == SortedByTimestamp(BackupEntries(prefixes)) IN sorted[1].prefix

\* find_latest_backup: sorted([p['Prefix'] ...])[-1]
LatestPrefix(prefixes) ==
    LET sorted == SortedByTimestamp(BackupEntries(prefixes)) IN sorted[Len(sorted)].prefix

(* ------------------------------- state --------------------------------- *)
VARIABLES
    backup_data,        \* the networks of the loaded snapshot, in order
    target_vpc_id,      \* the --vpc-id filter or NoId
    pc,                 \* the next program point of the restore invocation
    vpc_ids,            \* the networks selected for restore
    n,                  \* index of the network being restored
    i,                  \* index of the item in the stage's loop
    j,                  \* index of the route / association / rule of the item
    new_vpc_id,         \* identifier of the network created for vpc_ids[n]
    new_igw_id,         \* identifier of the gateway created for it, or NoId
    new_id,             \* identifier of the item being created
    created_resources,  \* self.created_resources
    calls,              \* log of provisioning-API calls, in call order
    errors,             \* log of logger.error records
    reports,            \* mapping tables logged at the end of each network
    nextId,             \* serial number of the next identifier the API mints
    failures,           \* number of failed calls so far
    result,             \* outcome of restore_vpc_from_backup
    exit_code           \* return value of cmd_restore, -1 while running

\* the snapshot store and the invocations that use it
VARIABLES
    s3,                 \* the objects of the bucket
    prefix,             \* the --prefix argument of backup, or Absent
    region,             \* the --region argument of the invocations, or Absent
    timestamp,          \* self.timestamp of VpcRestore, NoTs when not set
    command,            \* the invocation that follows the backup: restore or list
    live_vpcs,          \* the networks describe_vpcs reports to the backup
    backups,            \* the value list_backups returned
    rows,               \* the rows cmd_list printed
    backup_exit,        \* return value of cmd_backup, -1 before it returns
    s3_calls            \* log of the calls to the store, in call order

store == <<s3, prefix, region, command, live_vpcs, backups, rows, backup_exit, s3_calls>>

vars == <<backup_data, target_vpc_id, pc, vpc_ids, n, i, j, new_vpc_id, new_igw_id,
          new_id, created_resources, calls, errors, reports, nextId, failures,
          result, exit_code, store, timestamp>>

\* what the stages of a restore never change
inputs == <<backup_data, target_vpc_id, store, timestamp>>

StageNo == [vpc |-> 1, igw |-> 2, subnet |-> 3, rt |-> 4, sg |-> 5]

vpc_id == vpc_ids[n]
\* vpcs[vpc_id]
vpc_details == CHOOSE v \in Range(backup_data) : v.vpc_id = vpc_id

\* one record of the call log
\* op: the API operation; res: the resource it acts on; ref: the identifier of
\* another object passed to it; orig: the captured object it is issued for;
\* ret: the identifier the call returned;
\* item: the index of its route, association or rule in that object, or 0
Call(op, stage, res, ref, orig, item, tags, arg, az, rule, outcome, ret) ==
    [op |-> op, net |-> vpc_id, stage |-> StageNo[stage], res |-> res, ref |-> ref,
     orig |-> orig, item |-> item, tags |-> tags, arg |-> arg, az |-> az,
     rule |-> rule, outcome |-> outcome, ret |-> ret]

Fresh(kind) == Id(kind, "new", nextId)

\* the environment may fail a call while the failure budget lasts
MayBe(outcome) == outcome = "ok" \/ failures < MaxFailures

Issue(call) ==
    /\ calls' = Append(calls, call)
    /\ failures' = IF call.outcome = "ok" THEN failures ELSE failures + 1
    /\ nextId' = IF call.ret # NoId THEN nextId + 1 ELSE nextId

NoCall == UNCHANGED <<calls, failures, nextId>>

LogError(msg, about) == errors' = Append(errors, [msg |-> msg, about |-> about])

\* cmd_restore: 0 when restore_vpc_from_backup returned True, 1 when it returned
\* False or an exception reached the handler
Finish(res) ==
    /\ pc' = "done"
    /\ result' = res
    /\ exit_code' = IF res = "True" THEN 0 ELSE 1

Running == UNCHANGED <<result, exit_code>>

\* the state of a VpcRestore object after __init__, before any call
Constructed ==
    /\ vpc_ids = <<>>
    /\ n = 0 /\ i = 0 /\ j = 0
    /\ new_vpc_id = NoId /\ new_igw_id = NoId /\ new_id = NoId
    /\ created_resources =
          [vpc |-> NoId, subnets |-> EmptyMap, route_tables |-> EmptyMap,
           security_groups |-> EmptyMap, internet_gateways |-> EmptyMap,
           nat_gateways |-> EmptyMap]
    /\ calls = <<>> /\ errors = <<>> /\ reports = <<>>
    /\ nextId = 1 /\ failures = 0
    /\ result = "running" /\ exit_code = -1
    /\ backups = <<>> /\ rows = <<>> /\ s3_calls = <<>>

\* a restore invocation whose snapshot has been loaded
Init ==
    /\ backup_data \in Snapshots
    /\ target_vpc_id \in Targets
    /\ pc = "start"
    /\ Constructed
    /\ s3 = {} /\ prefix = Absent /\ region = Absent /\ timestamp = NoTs
    /\ command = "restore" /\ live_vpcs = <<>> /\ backup_exit = -1

(* ---------------------- restore_vpc_from_backup ------------------------ *)
\* the checks before the loop and the choice of the networks to restore
\* variant: the --vpc-id filter is not applied
SelectedVpcIdsUnfiltered(ids, target) == ids

\* vpc_ids = [self.target_vpc_id] if self.target_vpc_id else list(vpcs.keys())
SelectedVpcIds(ids, target) == IF target # NoId THEN <<target>> ELSE ids

select_vpcs ==
    /\ pc = "start"
    /\ LET ids == [k \in DOMAIN backup_data |-> backup_data[k].vpc_id] IN
       IF backup_data = <<>>
       THEN /\ LogError("No VPCs found in backup data", NoId)
            /\ Finish("False")
            /\ UNCHANGED <<vpc_ids, n>>
       ELSE IF target_vpc_id # NoId /\ target_vpc_id \notin Range(ids)
       THEN /\ LogError("VPC not found in backup data", target_vpc_id)
            /\ Finish("False")
            /\ UNCHANGED <<vpc_ids, n>>
       ELSE /\ vpc_ids' = SelectedVpcIds(ids, target_vpc_id)
            /\ n' = 1
            /\ pc' = "next_vpc"
            /\ UNCHANGED <<errors, result, exit_code>>
    /\ NoCall
    /\ UNCHANGED <<inputs, i, j, new_vpc_id, new_igw_id, new_id, created_resources, reports>>

\* variant: the `continue` is missing and the later stages run all the same
AbandonVpcNoContinue(msg) ==
    /\ errors' = errors \o <<[msg |-> msg, about |-> vpc_id],
                             [msg |-> "Failed to restore VPC", about |-> vpc_id]>>
    /\ n' = n
    /\ pc' = "create_igw"
    /\ new_vpc_id' = NoId

\* restore_vpc returned None: "Failed to restore VPC", continue with the next one
AbandonVpc(msg) ==
    /\ errors' = errors \o <<[msg |-> msg, about |-> vpc_id],
                             [msg |-> "Failed to restore VPC", about |-> vpc_id]>>
    /\ n' = n + 1
    /\ pc' = "next_vpc"
    /\ new_vpc_id' = NoId

\* head of the loop over vpc_ids and the CIDR check of restore_vpc
next_vpc ==
    /\ pc = "next_vpc"
    /\ IF n > Len(vpc_ids)
       THEN /\ Finish("True")
            /\ UNCHANGED <<errors, n, new_vpc_id>>
       ELSE IF vpc_details.CidrBlock = Absent
       THEN /\ AbandonVpc("Missing CIDR block for VPC")
            /\ Running
       ELSE /\ pc' = "create_vpc"
            /\ new_vpc_id' = NoId
            /\ UNCHANGED <<errors, n>>
            /\ Running
    /\ NoCall
    /\ UNCHANGED <<inputs, vpc_ids, i, j, new_igw_id, new_id, created_resources, reports>>

\* variant: route tables are restored before the subnets
StageOrderTablesFirst == <<"create_igw", "create_rt", "create_subnet", "create_sg">>

\* the stages restore_vpc_from_backup runs after restore_vpc, in call order
StageOrder == <<"create_igw", "create_subnet", "create_rt", "create_sg">>

\* the program point at which the stage following stage p starts
StageAfter(p) ==
    LET k == CHOOSE x \in DOMAIN StageOrder : StageOrder[x] = p
    IN IF k < Len(StageOrder) THEN StageOrder[k + 1] ELSE "sg_rules"

(* ----------------------------- restore_vpc ----------------------------- *)
create_vpc ==
    /\ pc = "create_vpc"
    /\ \E outcome \in {"ok", "ClientError"} :
         /\ MayBe(outcome)
         /\ LET ret == IF outcome = "ok" THEN Fresh("vpc") ELSE NoId IN
            /\ Issue(Call("create_vpc", "vpc", NoId, NoId, vpc_id, 0, <<>>,
                          vpc_details.CidrBlock, Absent, NoRule, outcome, ret))
            /\ IF outcome = "ok"
               THEN /\ new_vpc_id' = ret
                    /\ pc' = "wait_vpc"
                    /\ UNCHANGED <<errors, n>>
               ELSE AbandonVpc("Error creating VPC")
    /\ Running
    /\ UNCHANGED <<inputs, vpc_ids, i, j, new_igw_id, new_id, created_resources, reports>>

\* get_waiter('vpc_available').wait: a timeout raises WaiterError, which is not
\* a ClientError; it leaves restore_vpc and restore_vpc_from_backup and is
\* caught by cmd_restore
wait_vpc ==
    /\ pc = "wait_vpc"
    /\ \E outcome \in {"ok", "WaiterError"} :
         /\ MayBe(outcome)
         /\ Issue(Call("wait_vpc_available", "vpc", new_vpc_id, NoId, vpc_id, 0, <<>>,
                       Absent, Absent, NoRule, outcome, NoId))
         /\ IF outcome = "ok"
            THEN /\ pc' = "tag_vpc"
                 /\ Running
            ELSE Finish("Exception")
    /\ UNCHANGED <<inputs, vpc_ids, n, i, j, new_vpc_id, new_igw_id, new_id,
                   created_resources, errors, reports>>

tag_vpc ==
    /\ pc = "tag_vpc"
    /\ LET tag_specs == VpcTagSpecs(vpc_details.Tags) IN
       IF tag_specs = <<>>
       THEN /\ pc' = "dns_support"
            /\ NoCall
            /\ UNCHANGED <<errors, n, new_vpc_id>>
       ELSE \E outcome \in {"ok", "ClientError"} :
              /\ MayBe(outcome)
              /\ Issue(Call("create_tags", "vpc", new_vpc_id, NoId, vpc_id, 0, tag_specs,
                            Absent, Absent, NoRule, outcome, NoId))
              /\ IF outcome = "ok"
                 THEN /\ pc' = "dns_support"
                      /\ UNCHANGED <<errors, n, new_vpc_id>>
                 ELSE AbandonVpc("Error creating VPC")
    /\ Running
    /\ UNCHANGED <<inputs, vpc_ids, i, j, new_igw_id, new_id, created_resources, reports>>

\* vpc_data.get('EnableDnsSupport', True)
dns_support ==
    /\ pc = "dns_support"
    /\ IF vpc_details.EnableDnsSupport = "false"
       THEN /\ pc' = "dns_hostnames"
            /\ NoCall
            /\ UNCHANGED <<errors, n, new_vpc_id>>
       ELSE \E outcome \in {"ok", "ClientError"} :
              /\ MayBe(outcome)
              /\ Issue(Call("modify_vpc_attribute", "vpc", new_vpc_id, NoId, vpc_id, 0, <<>>,
                            "EnableDnsSupport", Absent, NoRule, outcome, NoId))
              /\ IF outcome = "ok"
                 THEN /\ pc' = "dns_hostnames"
                      /\ UNCHANGED <<errors, n, new_vpc_id>>
                 ELSE AbandonVpc("Error creating VPC")
    /\ Running
    /\ UNCHANGED <<inputs, vpc_ids, i, j, new_igw_id, new_id, created_resources, reports>>

\* vpc_data.get('EnableDnsHostnames', False); then created_resources['vpc'] is
\* set and the new identifier returned
dns_hostnames ==
    /\ pc = "dns_hostnames"
    /\ \E outcome \in {"ok", "ClientError"} :
         /\ MayBe(outcome)
         /\ IF vpc_details.EnableDnsHostnames # "true"
            THEN outcome = "ok" /\ NoCall
            ELSE Issue(Call("modify_vpc_attribute", "vpc", new_vpc_id, NoId, vpc_id, 0, <<>>,
                            "EnableDnsHostnames", Absent, NoRule, outcome, NoId))
         /\ IF outcome = "ok"
            THEN /\ created_resources' = [created_resources EXCEPT !.vpc = new_vpc_id]
                 /\ pc' = StageOrder[1]
                 /\ UNCHANGED <<errors, n, new_vpc_id>>
            ELSE /\ AbandonVpc("Error creating VPC")
                 /\ UNCHANGED created_resources
    /\ Running
    /\ UNCHANGED <<inputs, vpc_ids, i, j, new_igw_id, new_id, reports>>

(* ---------------------- restore_internet_gateway ----------------------- *)
\* variant: a failed gateway makes the run skip the subnets and route tables
IgwFailedSkipsStages ==
    /\ LogError("Error restoring Internet Gateway", vpc_id)
    /\ new_igw_id' = NoId
    /\ pc' = "create_sg"
    /\ i' = 1

\* variant: the gateway stage calls the creation of a NAT gateway
GatewayCreateOpNat == "create_nat_gateway"

\* restore_internet_gateway: self.ec2.create_internet_gateway()
GatewayCreateOp == "create_internet_gateway"

\* the gateway stage ends without a gateway
IgwFailed ==
    /\ LogError("Error restoring Internet Gateway", vpc_id)
    /\ new_igw_id' = NoId
    /\ pc' = StageAfter("create_igw")
    /\ i' = 1

create_igw ==
    /\ pc = "create_igw"
    /\ IF vpc_details.internet_gateways = <<>>
       THEN /\ new_igw_id' = NoId
            /\ pc' = StageAfter("create_igw")
            /\ i' = 1
            /\ NoCall
            /\ UNCHANGED <<errors, new_id>>
       ELSE \E outcome \in {"ok", "ClientError"} :
              /\ MayBe(outcome)
              /\ LET ret == IF outcome = "ok" THEN Fresh("igw") ELSE NoId IN
                 /\ Issue(Call(GatewayCreateOp, "igw", NoId, NoId,
                               vpc_details.internet_gateways[1].InternetGatewayId, 0, <<>>,
                               Absent, Absent, NoRule, outcome, ret))
                 /\ IF outcome = "ok"
                    THEN /\ new_id' = ret
                         /\ new_igw_id' = NoId
                         /\ pc' = "tag_igw"
                         /\ UNCHANGED <<errors, i>>
                    ELSE IgwFailed /\ UNCHANGED new_id
    /\ Running
    /\ UNCHANGED <<inputs, vpc_ids, n, j, new_vpc_id, created_resources, reports>>

tag_igw ==
    /\ pc = "tag_igw"
    /\ LET igw_data == vpc_details.internet_gateways[1]
           tag_specs == TagSpecs(igw_data.Tags) IN
       IF tag_specs = <<>>
       THEN /\ pc' = "attach_igw"
            /\ NoCall
            /\ UNCHANGED <<errors, new_igw_id, i>>
       ELSE \E outcome \in {"ok", "ClientError"} :
              /\ MayBe(outcome)
              /\ Issue(Call("create_tags", "igw", new_id, NoId, igw_data.InternetGatewayId, 0,
                            tag_specs, Absent, Absent, NoRule, outcome, NoId))
              /\ IF outcome = "ok"
                 THEN /\ pc' = "attach_igw"
                      /\ UNCHANGED <<errors, new_igw_id, i>>
                 ELSE IgwFailed
    /\ Running
    /\ UNCHANGED <<inputs, vpc_ids, n, j, new_vpc_id, new_id, created_resources, reports>>

\* on success created_resources['internet_gateways'][new_igw_id] = igw_data
attach_igw ==
    /\ pc = "attach_igw"
    /\ LET igw_data == vpc_details.internet_gateways[1] IN
       \E outcome \in {"ok", "ClientError"} :
         /\ MayBe(outcome)
         /\ Issue(Call("attach_internet_gateway", "igw", new_id, new_vpc_id,
                       igw_data.InternetGatewayId, 0, <<>>, Absent, Absent, NoRule,
                       outcome, NoId))
         /\ IF outcome = "ok"
            THEN /\ created_resources' =
                      [created_resources EXCEPT !.internet_gateways =
                          Put(@, new_id, igw_data)]
                 /\ new_igw_id' = new_id
                 /\ pc' = StageAfter("create_igw")
                 /\ i' = 1
                 /\ UNCHANGED errors
            ELSE IgwFailed /\ UNCHANGED created_resources
    /\ Running
    /\ UNCHANGED <<inputs, vpc_ids, n, j, new_vpc_id, new_id, reports>>

(* --------------------------- restore_subnets --------------------------- *)
\* the except clause of the loop body: log and go on with the next subnet
SubnetFailed ==
    /\ LogError("Error creating subnet", vpc_details.subnets[i].SubnetId)
    /\ i' = i + 1
    /\ pc' = "create_subnet"

create_subnet ==
    /\ pc = "create_subnet"
    /\ IF i > Len(vpc_details.subnets)
       THEN /\ pc' = StageAfter("create_subnet")
            /\ i' = 1
            /\ NoCall
            /\ UNCHANGED <<errors, new_id>>
       ELSE LET subnet_data == vpc_details.subnets[i] IN
            IF subnet_data.CidrBlock = Absent
            THEN /\ LogError("Missing CIDR block for subnet", subnet_data.SubnetId)
                 /\ i' = i + 1
                 /\ pc' = "create_subnet"
                 /\ NoCall
                 /\ UNCHANGED new_id
            ELSE \E outcome \in {"ok", "ClientError"} :
                   /\ MayBe(outcome)
                   /\ LET ret == IF outcome = "ok" THEN Fresh("subnet") ELSE NoId IN
                      /\ Issue(Call("create_subnet", "subnet", NoId, new_vpc_id,
                                    subnet_data.SubnetId, 0, <<>>, subnet_data.CidrBlock,
                                    subnet_data.AvailabilityZone, NoRule, outcome, ret))
                      /\ IF outcome = "ok"
                         THEN /\ new_id' = ret
                              /\ pc' = "tag_subnet"
                              /\ UNCHANGED <<errors, i>>
                         ELSE SubnetFailed /\ UNCHANGED new_id
    /\ Running
    /\ UNCHANGED <<inputs, vpc_ids, n, j, new_vpc_id, new_igw_id, created_resources, reports>>

tag_subnet ==
    /\ pc = "tag_subnet"
    /\ LET subnet_data == vpc_details.subnets[i]
           tag_specs == TagSpecs(subnet_data.Tags) IN
       IF tag_specs = <<>>
       THEN /\ pc' = "modify_subnet"
            /\ NoCall
            /\ UNCHANGED <<errors, i>>
       ELSE \E outcome \in {"ok", "ClientError"} :
              /\ MayBe(outcome)
              /\ Issue(Call("create_tags", "subnet", new_id, NoId, subnet_data.SubnetId, 0,
                            tag_specs, Absent, Absent, NoRule, outcome, NoId))
              /\ IF outcome = "ok"
                 THEN /\ pc' = "modify_subnet"
                      /\ UNCHANGED <<errors, i>>
                 ELSE SubnetFailed
    /\ Running
    /\ UNCHANGED <<inputs, vpc_ids, n, j, new_vpc_id, new_igw_id, new_id,
                   created_resources, reports>>

\* MapPublicIpOnLaunch is re-applied when captured enabled; then
\* created_resources['subnets'][subnet_id] = new_subnet_id
modify_subnet ==
    /\ pc = "modify_subnet"
    /\ LET subnet_data == vpc_details.subnets[i] IN
       \E outcome \in {"ok", "ClientError"} :
         /\ MayBe(outcome)
         /\ IF ~subnet_data.MapPublicIpOnLaunch
            THEN outcome = "ok" /\ NoCall
            ELSE Issue(Call("modify_subnet_attribute", "subnet", new_id, NoId,
                            subnet_data.SubnetId, 0, <<>>, "MapPublicIpOnLaunch", Absent,
                            NoRule, outcome, NoId))
         /\ IF outcome = "ok"
            THEN /\ created_resources' =
                      [created_resources EXCEPT !.subnets =
                          Put(@, subnet_data.SubnetId, new_id)]
                 /\ i' = i + 1
                 /\ pc' = "create_subnet"
                 /\ UNCHANGED errors
            ELSE SubnetFailed /\ UNCHANGED created_resources
    /\ Running
    /\ UNCHANGED <<inputs, vpc_ids, n, j, new_vpc_id, new_igw_id, new_id, reports>>

(* ------------------------- restore_route_tables ------------------------ *)
\* variant: the error ends the loop over the tables
RouteTableFailedEndsStage ==
    /\ LogError("Error creating route table", vpc_details.route_tables[i].RouteTableId)
    /\ i' = 1
    /\ pc' = StageAfter("create_rt")

\* the outer except clause: log and go on with the next table
RouteTableFailed ==
    /\ LogError("Error creating route table", vpc_details.route_tables[i].RouteTableId)
    /\ i' = i + 1
    /\ pc' = "create_rt"

create_rt ==
    /\ pc = "create_rt"
    /\ IF i > Len(vpc_details.route_tables)
       THEN /\ pc' = StageAfter("create_rt")
            /\ i' = 1
            /\ NoCall
            /\ UNCHANGED <<errors, new_id>>
       ELSE LET rt_data == vpc_details.route_tables[i] IN
            \E outcome \in {"ok", "ClientError"} :
              /\ MayBe(outcome)
              /\ LET ret == IF outcome = "ok" THEN Fresh("rtb") ELSE NoId IN
                 /\ Issue(Call("create_route_table", "rt", NoId, new_vpc_id,
                               rt_data.RouteTableId, 0, <<>>, Absent, Absent, NoRule,
                               outcome, ret))
                 /\ IF outcome = "ok"
                    THEN /\ new_id' = ret
                         /\ pc' = "tag_rt"
                         /\ UNCHANGED <<errors, i>>
                    ELSE RouteTableFailed /\ UNCHANGED new_id
    /\ Running
    /\ UNCHANGED <<inputs, vpc_ids, n, j, new_vpc_id, new_igw_id, created_resources, reports>>

tag_rt ==
    /\ pc = "tag_rt"
    /\ LET rt_data == vpc_details.route_tables[i]
           tag_specs == TagSpecs(rt_data.Tags) IN
       IF tag_specs = <<>>
       THEN /\ pc' = "create_route"
            /\ j' = 1
            /\ NoCall
            /\ UNCHANGED <<errors, i>>
       ELSE \E outcome \in {"ok", "ClientError"} :
              /\ MayBe(outcome)
              /\ Issue(Call("create_tags", "rt", new_id, NoId, rt_data.RouteTableId, 0,
                            tag_specs, Absent, Absent, NoRule, outcome, NoId))
              /\ IF outcome = "ok"
                 THEN /\ pc' = "create_route"
                      /\ j' = 1
                      /\ UNCHANGED <<errors, i>>
                 ELSE RouteTableFailed /\ UNCHANGED j
    /\ Running
    /\ UNCHANGED <<inputs, vpc_ids, n, new_vpc_id, new_igw_id, new_id,
                   created_resources, reports>>

\* variant: the captured gateway identifier is passed on
RouteTargetCaptured(route, igw_id) == route.GatewayId

\* route_args['GatewayId'] = igw_id
RouteTarget(route, igw_id) == igw_id

\* the loop over rt_data['Routes']; a failed create_route is logged and the
\* loop goes on
create_route ==
    /\ pc = "create_route"
    /\ LET rt_data == vpc_details.route_tables[i] IN
       IF j > Len(rt_data.Routes)
       THEN /\ pc' = "associate_rt"
            /\ j' = 1
            /\ NoCall
            /\ UNCHANGED errors
       ELSE LET route == rt_data.Routes[j] IN
            /\ j' = j + 1
            /\ pc' = "create_route"
            /\ IF ~RouteIssuesCall(route, new_igw_id)
               THEN NoCall /\ UNCHANGED errors
               ELSE \E outcome \in {"ok", "ClientError"} :
                      /\ MayBe(outcome)
                      /\ Issue(Call("create_route", "rt", new_id, RouteTarget(route, new_igw_id),
                                    rt_data.RouteTableId, j, <<>>, route.DestinationCidrBlock,
                                    Absent, NoRule, outcome, NoId))
                      /\ IF outcome = "ok"
                         THEN UNCHANGED errors
                         ELSE LogError("Error creating route", rt_data.RouteTableId)
    /\ Running
    /\ UNCHANGED <<inputs, vpc_ids, n, i, new_vpc_id, new_igw_id, new_id,
                   created_resources, reports>>

\* assoc.get('Main') is skipped; the others are associated when the captured
\* subnet is a key of created_resources['subnets']
AssocIssuesCall(assoc, subnets) ==
    /\ ~assoc.Main
    /\ assoc.SubnetId # NoId
    /\ assoc.SubnetId \in DOMAIN subnets

\* variant: the captured subnet identifier is passed on unresolved
ResolveSubnetUnmapped(subnets, subnet_id) == subnet_id

\* new_subnet_id = self.created_resources['subnets'][subnet_id]
ResolveSubnet(subnets, subnet_id) == subnets[subnet_id]

\* the loop over rt_data['Associations']; after it
\* created_resources['route_tables'][rt_id] = new_rt_id
associate_rt ==
    /\ pc = "associate_rt"
    /\ LET rt_data == vpc_details.route_tables[i] IN
       IF j > Len(rt_data.Associations)
       THEN /\ created_resources' =
                 [created_resources EXCEPT !.route_tables =
                     Put(@, rt_data.RouteTableId, new_id)]
            /\ i' = i + 1
            /\ pc' = "create_rt"
            /\ NoCall
            /\ UNCHANGED <<errors, j>>
       ELSE LET assoc == rt_data.Associations[j] IN
            /\ j' = j + 1
            /\ pc' = "associate_rt"
            /\ UNCHANGED <<created_resources, i>>
            /\ IF ~AssocIssuesCall(assoc, created_resources.subnets)
               THEN NoCall /\ UNCHANGED errors
               ELSE \E outcome \in {"ok", "ClientError"} :
                      /\ MayBe(outcome)
                      /\ Issue(Call("associate_route_table", "rt", new_id,
                                    ResolveSubnet(created_resources.subnets, assoc.SubnetId),
                                    rt_data.RouteTableId, j, <<>>, Absent, Absent, NoRule,
                                    outcome, NoId))
                      /\ IF outcome = "ok"
                         THEN UNCHANGED errors
                         ELSE LogError("Error associating route table", rt_data.RouteTableId)
    /\ Running
    /\ UNCHANGED <<inputs, vpc_ids, n, new_vpc_id, new_igw_id, new_id, reports>>

(* ----------------------- restore_security_groups ----------------------- *)
SgFailed ==
    /\ LogError("Error creating security group", vpc_details.security_groups[i].GroupId)
    /\ i' = i + 1
    /\ pc' = "create_sg"

\* variant: the reserved name is misspelt
IsDefaultMisspelt(sg_data) == sg_data.GroupName = "Default"

\* sg_name == 'default'
IsDefault(sg_data) == sg_data.GroupName = "default"

\* variant: the first loop stops one group early
Pass1DoneEarly(k, sg_data_list) == k >= Len(sg_data_list)

\* the first loop over sg_data_list has visited every group
Pass1Done(k, sg_data_list) == k > Len(sg_data_list)

\* first pass: create the groups
create_sg ==
    /\ pc = "create_sg"
    /\ IF Pass1Done(i, vpc_details.security_groups)
       THEN /\ pc' = StageAfter("create_sg")
            /\ i' = 1
            /\ NoCall
            /\ UNCHANGED <<errors, new_id>>
       ELSE LET sg_data == vpc_details.security_groups[i] IN
            IF IsDefault(sg_data)
            THEN /\ i' = i + 1
                 /\ pc' = "create_sg"
                 /\ NoCall
                 /\ UNCHANGED <<errors, new_id>>
            ELSE \E outcome \in {"ok", "ClientError"} :
                   /\ MayBe(outcome)
                   /\ LET ret == IF outcome = "ok" THEN Fresh("sg") ELSE NoId IN
                      /\ Issue(Call("create_security_group", "sg", NoId, new_vpc_id,
                                    sg_data.GroupId, 0, <<>>, sg_data.GroupName, Absent,
                                    NoRule, outcome, ret))
                      /\ IF outcome = "ok"
                         THEN /\ new_id' = ret
                              /\ pc' = "tag_sg"
                              /\ UNCHANGED <<errors, i>>
                         ELSE SgFailed /\ UNCHANGED new_id
    /\ Running
    /\ UNCHANGED <<inputs, vpc_ids, n, j, new_vpc_id, new_igw_id, created_resources, reports>>

\* tags, then created_resources['security_groups'][sg_id] = new_sg_id
tag_sg ==
    /\ pc = "tag_sg"
    /\ LET sg_data == vpc_details.security_groups[i]
           tag_specs == TagSpecs(sg_data.Tags) IN
       \E outcome \in {"ok", "ClientError"} :
         /\ MayBe(outcome)
         /\ IF tag_specs = <<>>
            THEN outcome = "ok" /\ NoCall
            ELSE Issue(Call("create_tags", "sg", new_id, NoId, sg_data.GroupId, 0,
                            tag_specs, Absent, Absent, NoRule, outcome, NoId))
         /\ IF outcome = "ok"
            THEN /\ created_resources' =
                      [created_resources EXCEPT !.security_groups =
                          Put(@, sg_data.GroupId, new_id)]
                 /\ i' = i + 1
                 /\ pc' = "create_sg"
                 /\ UNCHANGED errors
            ELSE SgFailed /\ UNCHANGED created_resources
    /\ Running
    /\ UNCHANGED <<inputs, vpc_ids, n, j, new_vpc_id, new_igw_id, new_id, reports>>

\* the mapping table logged after the last stage of a network
Report ==
    [vpc_id |-> vpc_id, new_vpc_id |-> new_vpc_id,
     subnets |-> created_resources.subnets,
     route_tables |-> created_resources.route_tables,
     security_groups |-> created_resources.security_groups]

\* second pass, head of the loop: the default group and the groups missing
\* from created_resources['security_groups'] are skipped; after the last
\* group the mapping table is logged and the next network is taken
sg_rules ==
    /\ pc = "sg_rules"
    /\ IF i > Len(vpc_details.security_groups)
       THEN /\ reports' = Append(reports, Report)
            /\ n' = n + 1
            /\ pc' = "next_vpc"
            /\ UNCHANGED <<i, j, new_id>>
       ELSE LET sg_data == vpc_details.security_groups[i] IN
            /\ UNCHANGED <<reports, n>>
            /\ IF \/ IsDefault(sg_data)
                  \/ sg_data.GroupId \notin DOMAIN created_resources.security_groups
               THEN /\ i' = i + 1
                    /\ pc' = "sg_rules"
                    /\ UNCHANGED <<j, new_id>>
               ELSE /\ new_id' = created_resources.security_groups[sg_data.GroupId]
                    /\ pc' = "authorize_ingress"
                    /\ j' = 1
                    /\ UNCHANGED i
    /\ NoCall
    /\ Running
    /\ UNCHANGED <<inputs, vpc_ids, new_vpc_id, new_igw_id, created_resources, errors>>

\* the outcomes of an authorize call: a duplicate-rule ClientError is ignored,
\* any other ClientError is logged
RuleOutcomes == {"ok", "Duplicate", "ClientError"}

\* variant: the duplicate-rule error is logged like any other
RuleFailureLoggedAlways(outcome) == outcome # "ok"

\* 'InvalidPermission.Duplicate' not in str(e)
RuleFailureLogged(outcome) == outcome = "ClientError"

\* the loop over sg_data['IpPermissions']
authorize_ingress ==
    /\ pc = "authorize_ingress"
    /\ LET sg_data == vpc_details.security_groups[i] IN
       IF j > Len(sg_data.IpPermissions)
       THEN /\ IF sg_data.HasEgress
               THEN pc' = "revoke_egress" /\ UNCHANGED i
               ELSE pc' = "sg_rules" /\ i' = i + 1
            /\ NoCall
            /\ UNCHANGED <<errors, j>>
       ELSE LET clean_rule == CleanSgRule(sg_data.IpPermissions[j]) IN
            /\ j' = j + 1
            /\ pc' = "authorize_ingress"
            /\ UNCHANGED i
            /\ IF clean_rule = NoRule
               THEN NoCall /\ UNCHANGED errors
               ELSE \E outcome \in RuleOutcomes :
                      /\ MayBe(outcome)
                      /\ Issue(Call("authorize_security_group_ingress", "sg", new_id, NoId,
                                    sg_data.GroupId, j, <<>>, Absent, Absent, clean_rule,
                                    outcome, NoId))
                      /\ IF RuleFailureLogged(outcome)
                         THEN LogError("Error adding ingress rule", sg_data.GroupId)
                         ELSE UNCHANGED errors
    /\ Running
    /\ UNCHANGED <<inputs, vpc_ids, n, new_vpc_id, new_igw_id, new_id,
                   created_resources, reports>>

\* variant: a ClientError of the revoke is not caught apart from the rules'
RevokeFailureFatal(outcome) == outcome = "ok"

\* except ClientError: pass
RevokeSwallowed(outcome) == outcome \in {"ok", "ClientError"}

\* the default allow-all egress rule is revoked; a ClientError is ignored
revoke_egress ==
    /\ pc = "revoke_egress"
    /\ \E outcome \in {"ok", "ClientError"} :
         /\ MayBe(outcome)
         /\ Issue(Call("revoke_security_group_egress", "sg", new_id, NoId,
                       vpc_details.security_groups[i].GroupId, 0, <<>>, Absent, Absent,
                       AllOut, outcome, NoId))
         /\ IF RevokeSwallowed(outcome)
            THEN /\ pc' = "authorize_egress"
                 /\ j' = 1
                 /\ UNCHANGED <<i, errors>>
            ELSE /\ LogError("Error adding egress rule", vpc_details.security_groups[i].GroupId)
                 /\ pc' = "sg_rules"
                 /\ i' = i + 1
                 /\ j' = j
    /\ Running
    /\ UNCHANGED <<inputs, vpc_ids, n, new_vpc_id, new_igw_id, new_id,
                   created_resources, reports>>

\* the loop over sg_data['IpPermissionsEgress']
authorize_egress ==
    /\ pc = "authorize_egress"
    /\ LET sg_data == vpc_details.security_groups[i] IN
       IF j > Len(sg_data.IpPermissionsEgress)
       THEN /\ pc' = "sg_rules"
            /\ i' = i + 1
            /\ NoCall
            /\ UNCHANGED <<errors, j>>
       ELSE LET clean_rule == CleanSgRule(sg_data.IpPermissionsEgress[j]) IN
            /\ j' = j + 1
            /\ pc' = "authorize_egress"
            /\ UNCHANGED i
            /\ IF clean_rule = NoRule
               THEN NoCall /\ UNCHANGED errors
               ELSE \E outcome \in RuleOutcomes :
                      /\ MayBe(outcome)
                      /\ Issue(Call("authorize_security_group_egress", "sg", new_id, NoId,
                                    sg_data.GroupId, j, <<>>, Absent, Absent, clean_rule,
                                    outcome, NoId))
                      /\ IF RuleFailureLogged(outcome)
                         THEN LogError("Error adding egress rule", sg_data.GroupId)
                         ELSE UNCHANGED errors
    /\ Running
    /\ UNCHANGED <<inputs, vpc_ids, n, new_vpc_id, new_igw_id, new_id,
                   created_resources, reports>>

(* --------------------------- specification ----------------------------- *)
Next ==
    \/ select_vpcs \/ next_vpc
    \/ create_vpc \/ wait_vpc \/ tag_vpc \/ dns_support \/ dns_hostnames
    \/ create_igw \/ tag_igw \/ attach_igw
    \/ create_subnet \/ tag_subnet \/ modify_subnet
    \/ create_rt \/ tag_rt \/ create_route \/ associate_rt
    \/ create_sg \/ tag_sg \/ sg_rules
    \/ authorize_ingress \/ revoke_egress \/ authorize_egress

Spec == Init /\ [][Next]_vars

(* ------------------- backup, listing and loading ----------------------- *)
S3Call(op, key, outcome) == [op |-> op, key |-> key, outcome |-> outcome]

S3Issue(call) ==
    /\ s3_calls' = Append(s3_calls, call)
    /\ failures' = IF call.outcome = "ok" THEN failures ELSE failures + 1

\* what the backup and the accesses to the store never change
restore_state == <<target_vpc_id, vpc_ids, n, j, new_vpc_id, new_igw_id, new_id,
                   created_resources, calls, nextId, reports>>

arguments == <<prefix, region, command, live_vpcs>>

\* the restore or list invocation the run ends with may name a timestamp
TimestampArgs == {NoTs, Ts1, NowTs}

\* a backup invocation, to be followed by a restore or a list invocation for
\* the same bucket, account and region setting
InitStore ==
    /\ pc = "backup"
    /\ Constructed
    /\ backup_data = <<>> /\ target_vpc_id = NoId
    /\ prefix \in PrefixArgs
    /\ region \in RegionArgs
    /\ s3 \in InitialStores(region)
    /\ command \in {"restore", "list"}
    /\ timestamp \in IF command = "restore" THEN TimestampArgs ELSE {NoTs}
    /\ live_vpcs \in {<<>>, <<Net1>>}
    /\ backup_exit = -1

\* cmd_backup up to the first upload: list_vpcs and the loop of get_vpc_details
backup_vpc_configuration ==
    /\ pc = "backup"
    /\ \E outcome \in {"ok", "ClientError"} :
        /\ MayBe(outcome)
        /\ failures' = IF outcome = "ok" THEN failures ELSE failures + 1
        /\ LET vpcs == IF outcome = "ok" THEN live_vpcs ELSE <<>> IN
           IF vpcs = <<>>
           THEN /\ backup_exit' = 1
                /\ pc' = "command"
           ELSE /\ backup_exit' = backup_exit
                /\ pc' = "save_json"
    /\ UNCHANGED <<restore_state, arguments, backup_data, timestamp, i, errors, result,
                   exit_code, s3, backups, rows, s3_calls>>

\* _save_to_s3: put_object of the content under the key of the format
SaveToS3(format, outcome) ==
    LET dir == BackupDir(prefix, region)
        key == Key(dir[1], dir[2], dir[3], NowTs, FileOf[format])
    IN /\ S3Issue(S3Call("put_object", key, outcome))
       /\ s3' = IF outcome = "ok"
                THEN {o \in s3 : o.key # key} \cup {Object(key, Body(format, NowTs, live_vpcs))}
                ELSE s3

save_json ==
    /\ pc = "save_json"
    /\ \E outcome \in {"ok", "ClientError"} :
        /\ MayBe(outcome)
        /\ SaveToS3("json", outcome)
    /\ pc' = "save_yaml"
    /\ UNCHANGED <<restore_state, arguments, backup_data, timestamp, i, errors, result,
                   exit_code, backups, rows, backup_exit>>

\* the second upload, then backup_vpc_configuration returns True and
\* cmd_backup returns 0
save_yaml ==
    /\ pc = "save_yaml"
    /\ \E outcome \in {"ok", "ClientError"} :
        /\ MayBe(outcome)
        /\ SaveToS3("yaml", outcome)
    /\ backup_exit' = 0
    /\ pc' = "command"
    /\ UNCHANGED <<restore_state, arguments, backup_data, timestamp, i, errors, result,
                   exit_code, backups, rows>>

\* restore_vpc_from_backup: load_backup_data returned None
LoadFailed ==
    /\ LogError("Failed to load backup data", NoId)
    /\ Finish("False")

\* head of load_backup_data in cmd_restore: find_latest_backup when no
\* timestamp was given
find_latest_backup ==
    /\ pc = "command" /\ command = "restore"
    /\ IF timestamp # NoTs
       THEN /\ pc' = "get_json"
            /\ UNCHANGED <<timestamp, s3_calls, failures, errors, result, exit_code>>
       ELSE \E outcome \in {"ok", "ClientError"} :
            /\ MayBe(outcome)
            /\ S3Issue(S3Call("list_objects_v2", RestoreDir(region), outcome))
            /\ LET prefixes == CommonPrefixes(s3, RestoreDir(region)) IN
               IF outcome = "ok" /\ prefixes # <<>>
               THEN /\ timestamp' = PrefixTimestamp(LatestPrefix(prefixes))
                    /\ pc' = "get_json"
                    /\ UNCHANGED <<errors, result, exit_code>>
               ELSE /\ LoadFailed
                    /\ timestamp' = timestamp
    /\ UNCHANGED <<restore_state, arguments, backup_data, i, s3, backups, rows, backup_exit>>

\* cmd_list up to the table: list_backups; 0 is returned when it is empty
list_backups ==
    /\ pc = "command" /\ command = "list"
    /\ \E outcome \in {"ok", "ClientError"} :
        /\ MayBe(outcome)
        /\ S3Issue(S3Call("list_objects_v2", RestoreDir(region), outcome))
        /\ LET prefixes == CommonPrefixes(s3, RestoreDir(region))
               listed == IF outcome = "ok" THEN NewestFirst(BackupEntries(prefixes)) ELSE <<>>
           IN /\ backups' = listed
              /\ IF listed = <<>>
                 THEN /\ pc' = "done" /\ result' = "listed" /\ exit_code' = 0
                      /\ i' = i
                 ELSE /\ pc' = "list_row" /\ i' = 1
                      /\ UNCHANGED <<result, exit_code>>
    /\ UNCHANGED <<restore_state, arguments, backup_data, timestamp, errors, s3, rows,
                   backup_exit>>

\* head of the loop of cmd_list over the backups; 0 is returned after the last
list_row ==
    /\ pc = "list_row"
    /\ IF i > Len(backups)
       THEN /\ pc' = "done" /\ result' = "listed" /\ exit_code' = 0
            /\ timestamp' = timestamp
       ELSE /\ timestamp' = backups[i].timestamp
            /\ pc' = "get_json"
            /\ UNCHANGED <<result, exit_code>>
    /\ UNCHANGED <<restore_state, arguments, backup_data, i, errors, failures, s3, backups,
                   rows, backup_exit, s3_calls>>

\* get_object: whether the key exists, and the content under it
HasObject(key) == \E o \in s3 : o.key = key
ObjectAt(key) == (CHOOSE o \in s3 : o.key = key).body

\* json.loads / yaml.safe_load of the content written in that format
Parsed(body) == [metadata |-> [timestamp |-> body.timestamp, vpc_count |-> Len(body.vpcs)],
                 vpcs |-> body.vpcs]

LoadKey(format) ==
    LET dir == RestoreDir(region) IN Key(dir[1], dir[2], dir[3], timestamp, FileOf[format])

\* load_backup_data returned the snapshot: restore goes on to select the
\* networks, cmd_list prints the row
Loaded(data) ==
    IF command = "restore"
    THEN /\ backup_data' = data.vpcs
         /\ pc' = "start"
         /\ UNCHANGED <<i, rows, errors, result, exit_code>>
    ELSE /\ rows' = Append(rows, [timestamp |-> timestamp, vpc_count |-> data.metadata.vpc_count])
         /\ i' = i + 1
         /\ pc' = "list_row"
         /\ UNCHANGED <<backup_data, errors, result, exit_code>>

\* load_backup_data returned None
NotLoaded ==
    IF command = "restore"
    THEN /\ LoadFailed
         /\ UNCHANGED <<backup_data, i, rows>>
    ELSE /\ i' = i + 1
         /\ pc' = "list_row"
         /\ UNCHANGED <<backup_data, rows, errors, result, exit_code>>

\* variant: any error of the first read makes the load try YAML
FallsBackOnAnyError(outcome) == outcome # "ok"

\* e.response['Error']['Code'] == 'NoSuchKey'
FallsBack(outcome) == outcome = "NoSuchKey"

\* load_backup_data: get_object of vpc_config.json
get_json ==
    /\ pc = "get_json"
    /\ LET key == LoadKey("json") IN
       \E outcome \in {"ok", "NoSuchKey", "ClientError"} :
        /\ MayBe(outcome) \/ outcome = "NoSuchKey"
        /\ (outcome = "ok") => HasObject(key)
        /\ (outcome = "NoSuchKey") <=> ~HasObject(key)
        /\ s3_calls' = Append(s3_calls, S3Call("get_object", key, outcome))
        /\ failures' = IF outcome = "ClientError" THEN failures + 1 ELSE failures
        /\ IF outcome = "ok" THEN Loaded(Parsed(ObjectAt(key)))
           ELSE IF FallsBack(outcome)
           THEN /\ pc' = "get_yaml"
                /\ UNCHANGED <<backup_data, i, rows, errors, result, exit_code>>
           ELSE NotLoaded
    /\ UNCHANGED <<restore_state, arguments, timestamp, s3, backups, backup_exit>>

\* load_backup_data: get_object of vpc_config.yaml after NoSuchKey
get_yaml ==
    /\ pc = "get_yaml"
    /\ LET key == LoadKey("yaml") IN
       \E outcome \in {"ok", "NoSuchKey", "ClientError"} :
        /\ MayBe(outcome) \/ outcome = "NoSuchKey"
        /\ (outcome = "ok") => HasObject(key)
        /\ (outcome = "NoSuchKey") <=> ~HasObject(key)
        /\ s3_calls' = Append(s3_calls, S3Call("get_object", key, outcome))
        /\ failures' = IF outcome = "ClientError" THEN failures + 1 ELSE failures
        /\ IF outcome = "ok" THEN Loaded(Parsed(ObjectAt(key))) ELSE NotLoaded
    /\ UNCHANGED <<restore_state, arguments, timestamp, s3, backups, backup_exit>>

NextStore ==
    \/ backup_vpc_configuration \/ save_json \/ save_yaml
    \/ find_latest_backup \/ list_backups \/ list_row
    \/ get_json \/ get_yaml
    \/ Next

StoreSpec == InitStore /\ [][NextStore]_vars

(* ------------------------- properties: helpers ------------------------- *)
Calls == DOMAIN calls
VpcOf(id) == CHOOSE v \in Range(backup_data) : v.vpc_id = id
RtOf(net, id) == CHOOSE t \in Range(VpcOf(net).route_tables) : t.RouteTableId = id
SgOf(net, id) == CHOOSE g \in Range(VpcOf(net).security_groups) : g.GroupId = id

KindStage == [vpc |-> 1, igw |-> 2, subnet |-> 3, rtb |-> 4, sg |-> 5]
OpStage ==
    [create_vpc |-> 1, wait_vpc_available |-> 1, modify_vpc_attribute |-> 1,
     create_internet_gateway |-> 2, attach_internet_gateway |-> 2,
     create_subnet |-> 3, modify_subnet_attribute |-> 3,
     create_route_table |-> 4, create_route |-> 4, associate_route_table |-> 4,
     create_security_group |-> 5, authorize_security_group_ingress |-> 5,
     authorize_security_group_egress |-> 5, revoke_security_group_egress |-> 5]

\* the stage a logged call belongs to, from the operation, and for create_tags
\* from the kind of the tagged resource
StageOfCall(c) == IF c.op = "create_tags" THEN KindStage[c.res.kind] ELSE OpStage[c.op]

\* the identifiers returned by successful creation calls before call x
CreatedBefore(x) ==
    {calls[y].ret : y \in {z \in Calls : z < x /\ calls[z].outcome = "ok" /\ calls[z].ret # NoId}}

RuleOps == {"authorize_security_group_ingress", "authorize_security_group_egress",
            "revoke_security_group_egress"}

\* the kind of the referenced object an operation must be given
RefKind ==
    [create_subnet |-> "vpc", create_route_table |-> "vpc",
     create_security_group |-> "vpc", attach_internet_gateway |-> "vpc",
     create_route |-> "igw", associate_route_table |-> "subnet"]

\* network k of the run has been reached by the loop over vpc_ids
Reached(k) ==
    \/ n > k
    \/ n = k /\ (pc # "done" \/ \E x \in Calls : calls[x].net = vpc_ids[k])

\* the creation of network k of the run failed: no CIDR block, or a
\* ClientError of one of the calls of restore_vpc
CreationFailed(k) ==
    \/ VpcOf(vpc_ids[k]).CidrBlock = Absent /\ n > k
    \/ \E x \in Calls : /\ calls[x].net = vpc_ids[k]
                        /\ StageOfCall(calls[x]) = 1
                        /\ calls[x].outcome = "ClientError"

(* ------------------------------ properties ----------------------------- *)
\* C1: for every network the provisioning calls are in forward stage order
\* (network, gateway, subnets, route tables, security groups): no call of an
\* earlier stage follows a call of a later stage of the same network.
C1_StagesForward ==
    \A a, b \in Calls :
        (a < b /\ calls[a].net = calls[b].net)
            => StageOfCall(calls[a]) <= StageOfCall(calls[b])

C1_Witness ==
    \E v \in Range(vpc_ids) :
        \A st \in 1..5 : \E x \in Calls : calls[x].net = v /\ StageOfCall(calls[x]) = st

\* C2 (as claimed): every entry of created_resources, of every kind including
\* the gateway, maps a captured identifier to an identifier returned by a
\* successful creation call.
C2_EntriesMapOrigToNew ==
    \A kind \in {"subnets", "route_tables", "security_groups", "internet_gateways"} :
        \A k \in DOMAIN created_resources[kind] :
            /\ k.gen = "orig"
            /\ created_resources[kind][k] \in CreatedBefore(Len(calls) + 1)

\* C3: every identifier of another restored object passed to a call, and the
\* identifier of the resource a call acts on, was returned by an earlier
\* successful creation call of this run and is of the kind the call needs.
C3_ReferencesAreNew ==
    \A x \in Calls :
        LET c == calls[x] IN
        /\ c.op \in DOMAIN RefKind =>
              /\ c.ref \in CreatedBefore(x)
              /\ c.ref.kind = RefKind[c.op]
        /\ c.ref # NoId => c.ref \in CreatedBefore(x)
        /\ c.res # NoId => c.res \in CreatedBefore(x)

C3_Witness ==
    /\ \E x \in Calls : calls[x].op = "create_route" /\ calls[x].outcome = "ok"
    /\ \E x \in Calls : calls[x].op = "associate_route_table" /\ calls[x].outcome = "ok"
    /\ \E x \in Calls : calls[x].op = "authorize_security_group_ingress"

C5_TimeoutKeepsRunGoing ==
    \A k \in DOMAIN vpc_ids :
        (\E x \in Calls : calls[x].net = vpc_ids[k] /\ calls[x].outcome = "WaiterError")
            => (k < Len(vpc_ids) => Reached(k + 1))

\* C6 (as claimed): the restore of each network starts from an empty mapping
\* and the table reported for a network holds entries of that network only.
C6_MappingPerNetwork ==
    /\ pc = "create_vpc" =>
          /\ DOMAIN created_resources.subnets = {}
          /\ DOMAIN created_resources.route_tables = {}
          /\ DOMAIN created_resources.security_groups = {}
    /\ \A x \in DOMAIN reports :
          LET r == reports[x]
              net == VpcOf(r.vpc_id) IN
          /\ DOMAIN r.subnets \subseteq {u.SubnetId : u \in Range(net.subnets)}
          /\ DOMAIN r.route_tables \subseteq {t.RouteTableId : t \in Range(net.route_tables)}
          /\ DOMAIN r.security_groups \subseteq {g.GroupId : g \in Range(net.security_groups)}

\* C7: a rule call (authorize ingress / egress, revoke egress) of a network is
\* issued only after the creation of every captured non-default group of that
\* network has been attempted, its tagging included.
C7_RulesAfterAllGroups ==
    \A x \in Calls :
        calls[x].op \in RuleOps =>
            \A g \in Range(VpcOf(calls[x].net).security_groups) :
                g.GroupName # "default" =>
                    \E y \in Calls :
                        /\ y < x
                        /\ calls[y].op = "create_security_group"
                        /\ calls[y].net = calls[x].net
                        /\ calls[y].orig = g.GroupId
                        /\ (calls[y].outcome = "ok" /\ TagSpecs(g.Tags) # <<>>) =>
                              \E z \in Calls : /\ y < z /\ z < x
                                               /\ calls[z].op = "create_tags"
                                               /\ calls[z].res = calls[y].ret

C7_Witness ==
    \E x \in Calls :
        /\ calls[x].op \in RuleOps
        /\ Cardinality({g \in Range(VpcOf(calls[x].net).security_groups) :
                            g.GroupName # "default"}) >= 2
        /\ \E y \in Calls : /\ y < x
                            /\ calls[y].op = "create_security_group"
                            /\ calls[y].orig # calls[x].orig
                            /\ calls[y].outcome = "ok"

\* C8 (as claimed): the authorize call of a captured rule that references a
\* group created in pass 1 carries the new identifier of that group.
C8_GroupReferencesResolved ==
    \A x \in Calls :
        LET c == calls[x] IN
        c.op \in {"authorize_security_group_ingress", "authorize_security_group_egress"} =>
            LET g == SgOf(c.net, c.orig)
                rule == IF c.op = "authorize_security_group_ingress"
                        THEN g.IpPermissions[c.item]
                        ELSE g.IpPermissionsEgress[c.item] IN
            \A ref \in Range(rule.UserIdGroupPairs) :
                ref \in DOMAIN created_resources.security_groups =>
                    created_resources.security_groups[ref]
                        \in Range(c.rule.UserIdGroupPairs)

\* C9 (as claimed): the tags applied to a created network are the captured
\* tags without those whose key starts with the reserved prefix.
C9_NetworkTagsExcludeReserved ==
    \A x \in Calls :
        (calls[x].op = "create_tags" /\ StageOfCall(calls[x]) = 1) =>
            Range(calls[x].tags) = {t \in Range(VpcOf(calls[x].net).Tags) : TagKept(t)}

\* C10: no create_route call is issued for a captured route whose target is
\* the local route.
C10_NoCallForLocalRoute ==
    \A x \in Calls :
        calls[x].op = "create_route" =>
            RtOf(calls[x].net, calls[x].orig).Routes[calls[x].item].GatewayId # LocalTarget

C10_Witness ==
    \E x \in Calls :
        /\ calls[x].op = "create_route"
        /\ \E y \in 1..(calls[x].item - 1) :
              RtOf(calls[x].net, calls[x].orig).Routes[y].GatewayId = LocalTarget

\* the identifier of the gateway attached to the network created for v
AttachedGateways(v) ==
    {calls[x].res : x \in {y \in Calls : /\ calls[y].net = v
                                         /\ calls[y].op = "attach_internet_gateway"
                                         /\ calls[y].outcome = "ok"}}

\* restore_vpc returned a new identifier for network k of the run
NetworkCreated(k) ==
    /\ \E x \in Calls : /\ calls[x].net = vpc_ids[k]
                        /\ calls[x].op = "create_vpc"
                        /\ calls[x].outcome = "ok"
    /\ \A x \in Calls : (calls[x].net = vpc_ids[k] /\ StageOfCall(calls[x]) = 1)
                            => calls[x].outcome = "ok"
    /\ n > k \/ (n = k /\ pc \notin {"create_vpc", "wait_vpc", "tag_vpc", "dns_support",
                                     "dns_hostnames", "next_vpc"})

\* the gateway stage of network v ended without a gateway
GatewayMissing(v) ==
    \/ VpcOf(v).internet_gateways = <<>>
    \/ \E x \in Calls : /\ calls[x].net = v
                        /\ StageOfCall(calls[x]) = 2
                        /\ calls[x].outcome = "ClientError"

\* the subnet, route-table and group stages have attempted every item of v
LaterStagesRan(v) ==
    /\ \A u \in Range(VpcOf(v).subnets) :
          u.CidrBlock # Absent =>
              \E x \in Calls : /\ calls[x].net = v /\ calls[x].op = "create_subnet"
                               /\ calls[x].orig = u.SubnetId
    /\ \A t \in Range(VpcOf(v).route_tables) :
          \E x \in Calls : /\ calls[x].net = v /\ calls[x].op = "create_route_table"
                           /\ calls[x].orig = t.RouteTableId
    /\ \A g \in Range(VpcOf(v).security_groups) :
          g.GroupName # "default" =>
              \E x \in Calls : /\ calls[x].net = v /\ calls[x].op = "create_security_group"
                               /\ calls[x].orig = g.GroupId
    /\ \E x \in DOMAIN reports : reports[x].vpc_id = v

\* C11: for a captured group named `default` no create_security_group call
\* and no rule call is issued, and it never becomes a key of the mapping.
C11_DefaultGroupNeverRestored ==
    /\ \A x \in Calls :
          StageOfCall(calls[x]) = 5 => SgOf(calls[x].net, calls[x].orig).GroupName # "default"
    /\ \A v \in Range(backup_data) :
          \A g \in Range(v.security_groups) :
              g.GroupName = "default" =>
                  g.GroupId \notin DOMAIN created_resources.security_groups

C11_Witness ==
    \E x \in DOMAIN reports :
        /\ \E g \in Range(VpcOf(reports[x].vpc_id).security_groups) : g.GroupName = "default"
        /\ \E y \in Calls : /\ calls[y].net = reports[x].vpc_id
                            /\ calls[y].op \in RuleOps

\* C12: for a captured table whose routes are a local route and a route to
\* 0.0.0.0/0 via the captured gateway, once a gateway was created for the
\* network and the table has been restored, exactly one create_route call
\* was issued for it: on the new table, to 0.0.0.0/0, via the new gateway.
C12_OneRouteToNewGateway ==
    \A v \in Range(vpc_ids) :
        \A t \in Range(VpcOf(v).route_tables) :
            \A y \in Calls :
                ( /\ Len(t.Routes) = 2
                  /\ t.Routes[1].GatewayId = LocalTarget
                  /\ VpcOf(v).internet_gateways # <<>>
                  /\ t.Routes[2] = Route("0.0.0.0/0",
                                         VpcOf(v).internet_gateways[1].InternetGatewayId)
                  /\ AttachedGateways(v) # {}
                  /\ calls[y].net = v
                  /\ calls[y].op = "create_route_table"
                  /\ calls[y].orig = t.RouteTableId
                  /\ calls[y].outcome = "ok"
                  /\ t.RouteTableId \in DOMAIN created_resources.route_tables )
                =>
                LET routeCalls == {x \in Calls : /\ calls[x].op = "create_route"
                                                 /\ calls[x].net = v
                                                 /\ calls[x].orig = t.RouteTableId} IN
                /\ Cardinality(routeCalls) = 1
                /\ \A x \in routeCalls :
                      /\ calls[x].res = calls[y].ret
                      /\ calls[x].arg = "0.0.0.0/0"
                      /\ calls[x].ref \in AttachedGateways(v)

C12_Witness ==
    \E v \in Range(vpc_ids) :
        \E t \in Range(VpcOf(v).route_tables) :
            /\ Len(t.Routes) = 2
            /\ t.Routes[1].GatewayId = LocalTarget
            /\ t.Routes[2].GatewayId.kind = "igw"
            /\ AttachedGateways(v) # {}
            /\ t.RouteTableId \in DOMAIN created_resources.route_tables
            /\ \E x \in Calls : /\ calls[x].op = "create_route"
                                /\ calls[x].net = v
                                /\ calls[x].orig = t.RouteTableId
                                /\ calls[x].outcome = "ok"

\* C13: when a network has no gateway or its gateway stage failed, no
\* create_route call is issued for the network, and once the network is done
\* its subnets, route tables and groups have all been attempted.
C13_GatewayFailureNotFatal ==
    \A k \in DOMAIN vpc_ids :
        (NetworkCreated(k) /\ GatewayMissing(vpc_ids[k])) =>
            /\ ~\E x \in Calls : calls[x].net = vpc_ids[k] /\ calls[x].op = "create_route"
            /\ n > k => LaterStagesRan(vpc_ids[k])

C13_Witness ==
    \E k \in DOMAIN vpc_ids :
        /\ NetworkCreated(k)
        /\ n > k
        /\ \E x \in Calls : /\ calls[x].net = vpc_ids[k]
                            /\ StageOfCall(calls[x]) = 2
                            /\ calls[x].outcome = "ClientError"
        /\ \E t \in Range(VpcOf(vpc_ids[k]).route_tables) :
              \E r \in Range(t.Routes) : r.GatewayId.kind = "igw"
        /\ \E x \in Calls : /\ calls[x].net = vpc_ids[k]
                            /\ calls[x].op = "associate_route_table"

\* C14 (as claimed): the step that skips a non-main association whose subnet
\* is not in the mapping writes a log record.
C14_SkippedAssociationLogged ==
    [][ IF pc = "associate_rt"
        THEN LET rt_data == vpc_details.route_tables[i] IN
             IF j <= Len(rt_data.Associations)
             THEN LET assoc == rt_data.Associations[j] IN
                  (~assoc.Main /\ assoc.SubnetId \notin DOMAIN created_resources.subnets)
                      => Len(errors') > Len(errors)
             ELSE TRUE
        ELSE TRUE ]_vars

\* C15 (as claimed): no authorize call carries a range without CIDR, and no
\* authorize call is issued for a captured rule all of whose ranges lack one.
C15_MalformedRangesCauseNoCall ==
    \A x \in Calls :
        LET c == calls[x] IN
        c.op \in {"authorize_security_group_ingress", "authorize_security_group_egress"} =>
            LET g == SgOf(c.net, c.orig)
                rule == IF c.op = "authorize_security_group_ingress"
                        THEN g.IpPermissions[c.item]
                        ELSE g.IpPermissionsEgress[c.item] IN
            /\ \A r \in Range(c.rule.IpRanges) \cup Range(c.rule.Ipv6Ranges) :
                  r.CidrIp # Absent
            /\ (rule.IpRanges \o rule.Ipv6Ranges # <<>>) =>
                  CleanRanges(rule.IpRanges \o rule.Ipv6Ranges) # <<>>

\* C19 (as claimed): the restore invocation exits with code 0 only when the
\* creation of no selected network failed.
C19_ExitZeroMeansAllRestored ==
    exit_code = 0 => \A k \in DOMAIN vpc_ids : ~CreationFailed(k)

(* ---------------------- properties of the store ------------------------ *)
S3Calls == DOMAIN s3_calls

\* the timestamps of the snapshots stored at vpc-backups/{account}/{region}/
StoredTimestamps ==
    {o.key[4] : o \in {x \in s3 : SubSeq(x.key, 1, 3) = RestoreDir(region)}}

ListCalls == {x \in S3Calls : s3_calls[x].op = "list_objects_v2"}
Listed == \E x \in ListCalls : s3_calls[x].outcome = "ok"

\* the uploads of the backup invocation that succeeded
Uploaded == {x \in S3Calls : s3_calls[x].op = "put_object" /\ s3_calls[x].outcome = "ok"}

\* C16: a restore without timestamp that could list the snapshots of its
\* account and region loads the one whose timestamp is the greatest in string
\* order; when there is none, or the listing fails, nothing is loaded, the
\* invocation returns False with exit code 1 and no provisioning call is made.
C16_LatestIsLexicalMaximum ==
    (command = "restore" /\ ListCalls # {}) =>
        IF Listed /\ StoredTimestamps # {}
        THEN /\ timestamp \in StoredTimestamps
             /\ \A t \in StoredTimestamps : t = timestamp \/ LexLess(t, timestamp)
             /\ \A x \in S3Calls : s3_calls[x].op = "get_object" => s3_calls[x].key[4] = timestamp
        ELSE /\ pc = "done" /\ result = "False" /\ exit_code = 1
             /\ backup_data = <<>>
             /\ calls = <<>>

\* C16 happens: of several stored snapshots the latest was loaded and restored.
C16_Witness ==
    /\ command = "restore" /\ Listed
    /\ Cardinality(StoredTimestamps) >= 2
    /\ \E x \in S3Calls : /\ s3_calls[x].op = "get_object" /\ s3_calls[x].outcome = "ok"
                           /\ s3_calls[x].key[4] = timestamp
    /\ calls # <<>>

\* C17: a listing that the store answered has one entry for each timestamp
\* stored for the account and region, the most recent first; when there is
\* none, the listing is empty and cmd_list returns 0.
C17_ListingNewestFirst ==
    (command = "list" /\ Listed) =>
        /\ {backups[k].timestamp : k \in DOMAIN backups} = StoredTimestamps
        /\ Len(backups) = Cardinality(StoredTimestamps)
        /\ \A k \in 1..(Len(backups) - 1) :
              LexLess(backups[k + 1].timestamp, backups[k].timestamp)
        /\ StoredTimestamps = {} =>
              (backups = <<>> /\ pc = "done" /\ exit_code = 0)

\* C17 happens: a listing of at least two snapshots has been returned.
C17_Witness ==
    /\ command = "list" /\ Listed
    /\ Len(backups) >= 2
    /\ pc = "done"

\* C18 (as claimed): once the backup has uploaded its snapshot, a listing for
\* the same account and region setting that the store answered has an entry
\* for it.
C18_StoredSnapshotIsListed ==
    (command = "list" /\ Listed /\ Uploaded # {}) =>
        \E k \in DOMAIN backups : backups[k].timestamp = NowTs

\* C20 (as claimed): the backup command returns 0 only when at least one of
\* its uploads succeeded.
C20_BackupSuccessMeansWritten ==
    backup_exit = 0 => Uploaded # {}

(* ------------------- properties of the restored network ---------------- *)
Reports == DOMAIN reports

CreateOps == {"create_vpc", "create_internet_gateway", "create_subnet",
              "create_route_table", "create_security_group"}

\* the lines original -> new of a logged mapping table
ReportEntries(r) ==
    {<<r.vpc_id, r.new_vpc_id>>}
        \cup {<<k, r.subnets[k]>> : k \in DOMAIN r.subnets}
        \cup {<<k, r.route_tables[k]>> : k \in DOMAIN r.route_tables}
        \cup {<<k, r.security_groups[k]>> : k \in DOMAIN r.security_groups}

\* C21 (as claimed): the mapping table logged at the end of a network's
\* restore has a line original -> new for every object a creation call of
\* that network returned.
C21_ReportCoversCreated ==
    \A k \in Reports : \A x \in Calls :
        LET c == calls[x] IN
        (c.net = reports[k].vpc_id /\ c.op \in CreateOps /\ c.outcome = "ok") =>
            <<c.orig, c.ret>> \in ReportEntries(reports[k])

\* the DNS attributes the provisioning API gives a network at creation
NewVpcDefault == [EnableDnsSupport |-> TRUE, EnableDnsHostnames |-> FALSE]

\* the value of a DNS attribute of a new network after the calls made so far:
\* every modify_vpc_attribute call of the restore sets Value True
DnsAttribute(new, name) ==
    IF \E x \in Calls : /\ calls[x].op = "modify_vpc_attribute" /\ calls[x].res = new
                         /\ calls[x].arg = name /\ calls[x].outcome = "ok"
    THEN TRUE
    ELSE NewVpcDefault[name]

\* the flag a captured value stands for
CapturedFlag(value, unspecified) == IF value = Absent THEN unspecified ELSE value = "true"

\* C22 (as claimed): a restored network has the captured DNS-support and
\* DNS-hostnames flags, DNS support enabled and DNS hostnames disabled when
\* the snapshot does not say.
C22_DnsFlagsAsCaptured ==
    \A k \in Reports :
        LET r == reports[k]
            v == VpcOf(r.vpc_id) IN
        /\ DnsAttribute(r.new_vpc_id, "EnableDnsSupport")
              = CapturedFlag(v.EnableDnsSupport, TRUE)
        /\ DnsAttribute(r.new_vpc_id, "EnableDnsHostnames")
              = CapturedFlag(v.EnableDnsHostnames, FALSE)

\* the creation operations of the kinds that are captured but not replayed
NotReplayedOps == {"create_nat_gateway", "create_vpc_endpoint",
                   "create_vpc_peering_connection"}

\* C23: no call of a restore run creates a NAT gateway, a VPC endpoint or a
\* peering connection, and none returns an object of these kinds.
C23_NatEndpointPeeringNotReplayed ==
    \A x \in Calls :
        /\ calls[x].op \notin NotReplayedOps
        /\ calls[x].ret.kind \notin {"nat", "vpce", "pcx"}

\* C23 happens: a network captured with a NAT gateway, an endpoint and a
\* peering connection has been restored to the end.
C23_Witness ==
    /\ pc = "done"
    /\ \E k \in Reports :
          LET v == VpcOf(reports[k].vpc_id) IN
          /\ v.nat_gateways # <<>>
          /\ v.vpc_endpoints # <<>>
          /\ v.vpc_peering_connections # <<>>
          /\ \E x \in Calls : calls[x].net = v.vpc_id /\ calls[x].op = "create_security_group"

\* C24 (as claimed): for a restored network every captured network ACL is
\* re-created by a call of the run.
C24_NetworkAclsReplayed ==
    \A k \in Reports :
        \A acl \in Range(VpcOf(reports[k].vpc_id).network_acls) :
            \E x \in Calls : /\ calls[x].net = reports[k].vpc_id
                              /\ calls[x].op = "create_network_acl"
                              /\ calls[x].orig = acl.NetworkAclId

(* ------------------------ properties of the load ----------------------- *)
Gets == {x \in S3Calls : s3_calls[x].op = "get_object"}
IsGet(x, format) == x \in Gets /\ s3_calls[x].key[5] = FileOf[format]
SameSnapshot(x, y) == SubSeq(s3_calls[x].key, 1, 4) = SubSeq(s3_calls[y].key, 1, 4)

\* what was captured under a timestamp: by this backup, or by the earlier one
\* that stored it
CapturedAt(ts) == IF ts = NowTs THEN live_vpcs ELSE <<Net3>>

\* C25: a read of the YAML object directly follows a read of the JSON object
\* of the same snapshot that reported NoSuchKey, and every such JSON read is
\* followed by the YAML read; a load starts with the JSON read; a restore
\* whose YAML read succeeded holds the networks captured under that timestamp.
C25_JsonFirstYamlOnAbsent ==
    /\ \A x \in Gets :
          IsGet(x, "yaml") =>
              /\ IsGet(x - 1, "json") /\ SameSnapshot(x - 1, x)
              /\ s3_calls[x - 1].outcome = "NoSuchKey"
    /\ \A x \in Gets :
          (IsGet(x, "json") /\ s3_calls[x].outcome = "NoSuchKey") =>
              IF x = Len(s3_calls) THEN pc = "get_yaml"
              ELSE IsGet(x + 1, "yaml") /\ SameSnapshot(x, x + 1)
    /\ backup_data # <<>> => \E x \in Gets : IsGet(x, "json")
    /\ \A x \in Gets :
          (command = "restore" /\ IsGet(x, "yaml") /\ s3_calls[x].outcome = "ok") =>
              /\ Range(backup_data) = Range(CapturedAt(s3_calls[x].key[4]))
              /\ Len(backup_data) = Len(CapturedAt(s3_calls[x].key[4]))
              /\ result # "False"

\* C25 happens: a restore loaded its snapshot from YAML after JSON was
\* reported absent, and went on to create the network.
C25_Witness ==
    /\ command = "restore"
    /\ \E x \in Gets : /\ IsGet(x, "yaml") /\ s3_calls[x].outcome = "ok"
                        /\ s3_calls[x - 1].outcome = "NoSuchKey"
    /\ backup_data # <<>>
    /\ calls # <<>>

(* ------------------- properties of the rule calls ---------------------- *)
IsOp(x, op) == x \in Calls /\ calls[x].op = op

\* C26: an authorize-egress call for a group follows a revoke call for it;
\* right after a failed revoke the run goes on, about to authorize the egress
\* rules of the group if it has any to send, and the group is still in the
\* mapping; and once the network is
\* reported, every captured egress rule of the group that leaves a rule to
\* send has been sent after the failed revoke.
C26_RevokeBeforeEgressNotFatal ==
    /\ \A x \in Calls :
          IsOp(x, "authorize_security_group_egress") =>
              \E y \in 1..(x - 1) : /\ IsOp(y, "revoke_security_group_egress")
                                    /\ calls[y].res = calls[x].res
    /\ \A y \in Calls :
          (IsOp(y, "revoke_security_group_egress") /\ calls[y].outcome = "ClientError") =>
              LET g == SgOf(calls[y].net, calls[y].orig) IN
              /\ y = Len(calls) =>
                    /\ \/ pc = "authorize_egress"
                       \/ \A r \in DOMAIN g.IpPermissionsEgress :
                             CleanSgRule(g.IpPermissionsEgress[r]) = NoRule
                    /\ result # "False" /\ exit_code # 1
                    /\ calls[y].orig \in DOMAIN created_resources.security_groups
              /\ (\E k \in Reports : reports[k].vpc_id = calls[y].net) =>
                    \A r \in DOMAIN g.IpPermissionsEgress :
                        CleanSgRule(g.IpPermissionsEgress[r]) # NoRule =>
                            \E x \in Calls : /\ x > y
                                              /\ IsOp(x, "authorize_security_group_egress")
                                              /\ calls[x].res = calls[y].res
                                              /\ calls[x].item = r

\* C26 happens: the revoke for a group failed, an egress rule of the group
\* was authorized after it and the network was restored to the end.
C26_Witness ==
    \E y \in Calls :
        /\ IsOp(y, "revoke_security_group_egress") /\ calls[y].outcome = "ClientError"
        /\ \E x \in Calls : /\ x > y
                             /\ IsOp(x, "authorize_security_group_egress")
                             /\ calls[x].res = calls[y].res
                             /\ calls[x].outcome = "ok"
        /\ \E k \in Reports : reports[k].vpc_id = calls[y].net

AuthorizeOps == {"authorize_security_group_ingress", "authorize_security_group_egress"}
RuleErrors == {"Error adding ingress rule", "Error adding egress rule"}

\* the authorize calls for a captured group that failed with the outcome
FailedAuthorize(g, outcome) ==
    {x \in Calls : /\ calls[x].op \in AuthorizeOps /\ calls[x].orig = g
                   /\ calls[x].outcome = outcome}

\* the captured rules of a group that leave a rule to send, as <<op, index>>
RulesToSend(g) ==
    {<<"authorize_security_group_ingress", r>> :
        r \in {q \in DOMAIN g.IpPermissions : CleanSgRule(g.IpPermissions[q]) # NoRule}}
    \cup
    {<<"authorize_security_group_egress", r>> :
        r \in {q \in DOMAIN g.IpPermissionsEgress :
                  g.HasEgress /\ CleanSgRule(g.IpPermissionsEgress[q]) # NoRule}}

\* C27: the rule errors logged for a group are as many as its authorize calls
\* that failed otherwise than with the duplicate-rule error; a failed
\* authorize call does not fail the run; and once a network is reported,
\* every rule to send of every created group of it has been sent, whatever
\* failed before.
C27_DuplicateSwallowedOthersLogged ==
    /\ \A v \in Range(backup_data) : \A g \in Range(v.security_groups) :
          Cardinality({e \in DOMAIN errors :
                          errors[e].msg \in RuleErrors /\ errors[e].about = g.GroupId})
              = Cardinality(FailedAuthorize(g.GroupId, "ClientError"))
    /\ (calls # <<>> /\ calls[Len(calls)].op \in AuthorizeOps
           /\ calls[Len(calls)].outcome # "ok") =>
          (result # "False" /\ exit_code # 1)
    /\ \A k \in Reports :
          \A g \in Range(VpcOf(reports[k].vpc_id).security_groups) :
              (\E x \in Calls : /\ IsOp(x, "create_security_group")
                                /\ calls[x].net = reports[k].vpc_id
                                /\ calls[x].orig = g.GroupId
                                /\ g.GroupId \in DOMAIN reports[k].security_groups) =>
                  \A t \in RulesToSend(g) :
                      \E x \in Calls : /\ IsOp(x, t[1]) /\ calls[x].orig = g.GroupId
                                        /\ calls[x].net = reports[k].vpc_id
                                        /\ calls[x].item = t[2]

\* C27 happens: an authorize call failed with the duplicate-rule error and
\* another with a different error, later rules were sent and the network
\* was restored to the end.
C27_Witness ==
    \E x, y \in Calls :
        /\ calls[x].op \in AuthorizeOps /\ calls[x].outcome = "Duplicate"
        /\ calls[y].op \in AuthorizeOps /\ calls[y].outcome = "ClientError"
        /\ \E z \in Calls : z > x /\ z > y /\ calls[z].op \in AuthorizeOps
        /\ \E k \in Reports : reports[k].vpc_id = calls[x].net

(* ---------------------- properties of the stages ----------------------- *)
\* a creation call for the captured item failed
CreateFailed(op, id) ==
    \E x \in Calls : IsOp(x, op) /\ calls[x].orig = id /\ calls[x].outcome = "ClientError"

\* a creation call for the captured item of the network was issued
CreateAttempted(net, op, id) ==
    \E x \in Calls : IsOp(x, op) /\ calls[x].net = net /\ calls[x].orig = id

\* C28: a subnet without CIDR and an item whose creation call failed are not
\* in the mapping; a network whose creation succeeded and that the run has
\* left was reported, that is, went through all its stages; and for a
\* reported network every subnet with a CIDR, every route table and every
\* group other than default had its creation attempted, whatever failed.
C28_ItemFailureIsLocal ==
    /\ \A v \in Range(backup_data) :
          /\ \A sn \in Range(v.subnets) :
                (sn.CidrBlock = Absent \/ CreateFailed("create_subnet", sn.SubnetId)) =>
                    sn.SubnetId \notin DOMAIN created_resources.subnets
          /\ \A t \in Range(v.route_tables) :
                CreateFailed("create_route_table", t.RouteTableId) =>
                    t.RouteTableId \notin DOMAIN created_resources.route_tables
          /\ \A g \in Range(v.security_groups) :
                CreateFailed("create_security_group", g.GroupId) =>
                    g.GroupId \notin DOMAIN created_resources.security_groups
    /\ \A k \in DOMAIN vpc_ids :
          (k < n /\ ~CreationFailed(k)) => \E r \in Reports : reports[r].vpc_id = vpc_ids[k]
    /\ \A r \in Reports :
          LET v == VpcOf(reports[r].vpc_id) IN
          /\ \A sn \in Range(v.subnets) :
                sn.CidrBlock # Absent => CreateAttempted(v.vpc_id, "create_subnet", sn.SubnetId)
          /\ \A t \in Range(v.route_tables) :
                CreateAttempted(v.vpc_id, "create_route_table", t.RouteTableId)
          /\ \A g \in Range(v.security_groups) :
                ~IsDefault(g) => CreateAttempted(v.vpc_id, "create_security_group", g.GroupId)

\* C28 happens: the creation of a subnet and of the first route table of a
\* network failed, a later table and a group were created and the network
\* was reported.
C28_Witness ==
    \E r \in Reports : \E x, y, z, w \in Calls :
        /\ calls[x].net = reports[r].vpc_id /\ calls[y].net = reports[r].vpc_id
        /\ calls[z].net = reports[r].vpc_id /\ calls[w].net = reports[r].vpc_id
        /\ IsOp(x, "create_subnet") /\ calls[x].outcome = "ClientError"
        /\ IsOp(y, "create_route_table") /\ calls[y].outcome = "ClientError"
        /\ z > y /\ IsOp(z, "create_route_table") /\ calls[z].outcome = "ok"
        /\ IsOp(w, "create_security_group") /\ calls[w].outcome = "ok"

\* the captured route a create_route call was issued for
RouteOf(c) == RtOf(c.net, c.orig).Routes[c.item]

\* C29: a create_route call is issued only for a captured route that has a
\* destination CIDR and whose target is an internet gateway, never for one
\* whose target is a NAT gateway, a peering connection or another gateway,
\* and only with a gateway created earlier in the run as its target.
C29_RoutesOnlyToInternetGateway ==
    \A x \in Calls :
        IsOp(x, "create_route") =>
            LET route == RouteOf(calls[x]) IN
            /\ route.DestinationCidrBlock # Absent
            /\ route.GatewayId.kind = "igw"
            /\ route.NatGatewayId = NoId
            /\ route.VpcPeeringConnectionId = NoId
            /\ calls[x].ref.kind = "igw"
            /\ calls[x].ref \in CreatedBefore(x)

\* C29 happens: the gateway route of a table that also has a peering route
\* and a route to another kind of gateway was created, and the network was
\* restored to the end.
C29_Witness ==
    \E x \in Calls :
        /\ IsOp(x, "create_route") /\ calls[x].outcome = "ok"
        /\ \E r \in Range(RtOf(calls[x].net, calls[x].orig).Routes) :
              r.VpcPeeringConnectionId # NoId
        /\ \E r \in Range(RtOf(calls[x].net, calls[x].orig).Routes) :
              r.GatewayId # LocalTarget /\ r.GatewayId.kind = "vgw"
        /\ \E k \in Reports : reports[k].vpc_id = calls[x].net

(* ---------------------- properties of the filter ----------------------- *)
CapturedIds == {backup_data[k].vpc_id : k \in DOMAIN backup_data}

\* C30: with a --vpc-id filter every provisioning call of the run is for
\* that network and the run visits no other; when the snapshot does not hold
\* the network, no provisioning call is made and the invocation ends with
\* False and exit code 1.
C30_FilterRestoresOnlyThatNetwork ==
    target_vpc_id # NoId =>
        /\ \A x \in Calls : calls[x].net = target_vpc_id
        /\ \A k \in DOMAIN vpc_ids : vpc_ids[k] = target_vpc_id
        /\ \A r \in Reports : reports[r].vpc_id = target_vpc_id
        /\ target_vpc_id \notin CapturedIds =>
              /\ calls = <<>>
              /\ pc = "done" => (result = "False" /\ exit_code = 1)

\* C30 happens: of a snapshot with two networks the one named by the filter
\* has been restored to the end.
C30_Witness ==
    /\ target_vpc_id # NoId
    /\ Len(backup_data) >= 2
    /\ pc = "done"
    /\ \E r \in Reports : reports[r].vpc_id = target_vpc_id
    /\ \E x \in Calls : IsOp(x, "create_security_group") /\ calls[x].outcome = "ok"

====
